---- MODULE Spec2Model ----
(***************************************************************************)
(* Model of @hsuite/api-key: one request passing through ApiKeyAuthGuard   *)
(* -> ApiKeyStrategy (HeaderAPIKeyStrategy configured with header          *)
(* 'Authorization', prefix 'Bearer ') -> ApiKeyService.validateApiKey ->   *)
(* UserModelService.findOne.                                               *)
(*                                                                         *)
(* Strings that the code inspects (header values, keys) are sequences of   *)
(* one-character strings, so that prefix matching and stripping are        *)
(* computed and not assumed.                                               *)
(***************************************************************************)
EXTENDS Naturals, Sequences, FiniteSets

(* ---------------------------- bounds ----------------------------------- *)

\* Largest number of tags one user record of the store holds.
MaxTags == 2

(* --------------------------- program constants ------------------------- *)

\* strategy.ts:53  prefix: 'Bearer '
Prefix == <<"B", "e", "a", "r", "e", "r", " ">>

\* part_000:82  'tags.key': 'api-key'
ApiKeyTagName == "api-key"

(* --------------------------- input universes --------------------------- *)

Ids == {"U1", "U2"}

\* Tag values and presented keys: the empty string, "a" and "b".
Keys == {<< >>, <<"a">>, <<"b">>}

TagNames == {ApiKeyTagName, "role"}

Tag == [key : TagNames, value : Keys]

TagSets == {T \in SUBSET Tag : Cardinality(T) <= MaxTags}

\* A user record of the store, or no record under that _id.
Records == {[exists |-> FALSE, tags |-> {}]}
             \cup {[exists |-> TRUE, tags |-> T] : T \in TagSets}

\* What a client can put in front of a key.
Schemes == { Prefix,
             <<"B", "e", "a", "r", "e", "r">>,
             <<"b", "e", "a", "r", "e", "r", " ">>,
             <<"T", "o", "k", "e", "n", " ">>,
             << >> }

NoHeader == [present |-> FALSE, value |-> << >>]

Headers == {NoHeader} \cup {[present |-> TRUE, value |-> s \o k] : s \in Schemes, k \in Keys}

(* --------------------------- values ------------------------------------ *)

\* undefined / null where a user (document) is expected
NoDoc == [present |-> FALSE, id |-> "none", tags |-> {}, form |-> "none"]

NoKey == [present |-> FALSE, value |-> << >>]

NoLookup == [state |-> "none", id |-> "none", tagKey |-> "none", tagValue |-> << >>,
             doc |-> NoDoc, err |-> "none"]

PromisePending == [state |-> "pending", value |-> NoDoc, err |-> "none"]

Pending == [kind |-> "Pending", reason |-> "none", user |-> NoDoc]

NoRaise == <<FALSE, FALSE>>

VARIABLES
  store,      \* the users collection: _id -> record
  header,     \* the request's Authorization header
  claimed,    \* request.user as the upstream stage left it (never changes)
  reqUser,    \* request.user
  pc,         \* "start", "awaiting" (findOne outstanding), "settled"
              \* (validateApiKey's promise settled, done not yet called), "done"
  apiKey,     \* the key the strategy extracted
  lookup,     \* the findOne call: filter, and its answer once the store gave one
  promise,    \* the promise validateApiKey returned
  doneLog,    \* the calls of done(err, user) made by the verify callback
  outcome,    \* what the strategy reported to the host
  queries,    \* number of findOne calls issued
  cancelled,  \* the host aborted the request (client went away)
  unhandled   \* the verify callback's own promise rejected

vars == <<store, header, claimed, reqUser, pc, apiKey, lookup, promise, doneLog,
          outcome, queries, cancelled, unhandled>>

(* --------------------------- pure functions ---------------------------- *)

StartsWith(s, p) == Len(s) >= Len(p) /\ SubSeq(s, 1, Len(p)) = p

\* ExtractApiKey without the prefix test: the first Len(Prefix) characters
\* are cut off whatever they are.
ExtractApiKeyUnchecked(h) ==
  IF ~h.present \/ h.value = << >> THEN NoKey
  ELSE [present |-> TRUE, value |-> SubSeq(h.value, Len(Prefix) + 1, Len(h.value))]

\* HeaderAPIKeyStrategy as configured in ApiKeyStrategy's constructor:
\* a missing or empty header, or one that does not start with the prefix,
\* yields no key; otherwise the prefix is removed once and the rest is the key.
ExtractApiKey(h) ==
  IF ~h.present \/ h.value = << >> THEN NoKey
  ELSE IF StartsWith(h.value, Prefix)
       THEN [present |-> TRUE, value |-> SubSeq(h.value, Len(Prefix) + 1, Len(h.value))]
       ELSE NoKey

\* The filter validateApiKey builds.
Filter(key, user) ==
  [id |-> user.id, tagKey |-> ApiKeyTagName, tagValue |-> key]

\* findOne({_id, 'tags.key': k, 'tags.value': v}): the record with that _id,
\* if some element of its tags array has key k and some element has value v
\* (dot notation puts each condition on the array, not on one element).
FindOne(st, f) ==
  IF /\ st[f.id].exists
     /\ \E t \in st[f.id].tags : t.key = f.tagKey
     /\ \E t \in st[f.id].tags : t.value = f.tagValue
  THEN [present |-> TRUE, id |-> f.id, tags |-> st[f.id].tags, form |-> "document"]
  ELSE NoDoc

\* userDocument?.toJSON()
ToJSON(d) == IF d.present THEN [d EXCEPT !.form = "json"] ELSE NoDoc

DoneCall(e, u) == [err |-> e, user |-> u]

\* ValidateSettle with a catch that resolves with nothing instead of rejecting.
ValidateSettleSwallow(lk) ==
  IF lk.state = "resolved"
  THEN [state |-> "resolved", value |-> ToJSON(lk.doc), err |-> "none"]
  ELSE [state |-> "resolved", value |-> NoDoc, err |-> "none"]

\* The executor of validateApiKey after the await of findOne: resolve with the
\* plain object (undefined when nothing matched), reject with what was caught.
ValidateSettle(lk) ==
  IF lk.state = "resolved"
  THEN [state |-> "resolved", value |-> ToJSON(lk.doc), err |-> "none"]
  ELSE [state |-> "rejected", value |-> NoDoc, err |-> lk.err]

\* VerifyDone with the test of the user the wrong way round.
VerifyDoneInverted(p, raises) ==
  IF p.state = "rejected"
  THEN [log |-> <<DoneCall(p.err, NoDoc)>>, threw |-> raises[1]]
  ELSE LET first == IF p.value.present THEN DoneCall("none", NoDoc)
                                        ELSE DoneCall("none", p.value)
       IN IF raises[1]
          THEN [log |-> <<first, DoneCall("DoneError", NoDoc)>>, threw |-> raises[2]]
          ELSE [log |-> <<first>>, threw |-> FALSE]

\* The verify callback after the await of validateApiKey. raises[1] and
\* raises[2] say whether the first and the second call of done throw.
\* Result: the calls of done, in order, and whether the callback itself threw.
VerifyDone(p, raises) ==
  IF p.state = "rejected"
  THEN [log |-> <<DoneCall(p.err, NoDoc)>>, threw |-> raises[1]]
  ELSE LET first == IF ~p.value.present THEN DoneCall("none", NoDoc)
                                         ELSE DoneCall("none", p.value)
       IN IF raises[1]
          THEN [log |-> <<first, DoneCall("DoneError", NoDoc)>>, threw |-> raises[2]]
          ELSE [log |-> <<first>>, threw |-> FALSE]

\* What a call of done(err, user) makes the strategy report:
\* error(err), fail() or success(user).
Verified(c) ==
  IF c.err # "none" THEN [kind |-> "Error", reason |-> c.err, user |-> NoDoc]
  ELSE IF ~c.user.present
       THEN [kind |-> "Denied", reason |-> "credential-mismatch", user |-> NoDoc]
       ELSE [kind |-> "Allowed", reason |-> "none", user |-> c.user]

\* The guard puts the user of a successful outcome on the request and leaves
\* the request alone otherwise.
Attach(o, u) == IF o.kind = "Allowed" THEN o.user ELSE u

(* --------------------------- initial states ---------------------------- *)

\* request.user as an upstream stage may have left it: nothing, or the
\* document of some _id (whose record may since have left the store).
Claims(st) ==
  {NoDoc} \cup {[present |-> TRUE, id |-> i, tags |-> st[i].tags, form |-> "document"] : i \in Ids}

Init ==
  /\ store \in [Ids -> Records]
  /\ header \in Headers
  /\ claimed \in Claims(store)
  /\ reqUser = claimed
  /\ pc = "start"
  /\ apiKey = NoKey
  /\ lookup = NoLookup
  /\ promise = PromisePending
  /\ doneLog = << >>
  /\ outcome = Pending
  /\ queries = 0
  /\ cancelled = FALSE
  /\ unhandled = FALSE

(* --------------------------- actions ----------------------------------- *)

\* The guard runs the strategy on the request: extraction, then the verify
\* callback up to its suspension at the await of validateApiKey.
\*  - no key: fail(BadRequestError), the request is denied;
\*  - request.user undefined: reading user._id throws inside the executor's
\*    try and the promise rejects; the callback is suspended on the rejected
\*    promise and done has not been called;
\*  - otherwise findOne is issued and the executor waits for it.
Authenticate ==
  /\ pc = "start"
  /\ LET k == ExtractApiKey(header) IN
     /\ apiKey' = k
     /\ IF ~k.present
        THEN /\ outcome' = [kind |-> "Denied", reason |-> "missing-credential", user |-> NoDoc]
             /\ pc' = "done"
             /\ UNCHANGED <<lookup, promise, queries>>
        ELSE IF ~reqUser.present
        THEN /\ promise' = [state |-> "rejected", value |-> NoDoc, err |-> "TypeError"]
             /\ pc' = "settled"
             /\ UNCHANGED <<lookup, outcome, queries>>
        ELSE /\ lookup' = [NoLookup EXCEPT !.state = "inflight",
                                           !.id = Filter(k.value, reqUser).id,
                                           !.tagKey = Filter(k.value, reqUser).tagKey,
                                           !.tagValue = Filter(k.value, reqUser).tagValue]
             /\ queries' = queries + 1
             /\ pc' = "awaiting"
             /\ UNCHANGED <<promise, outcome>>
  /\ UNCHANGED <<store, header, claimed, reqUser, doneLog, cancelled, unhandled>>

\* The store answers the outstanding findOne with what the filter selects.
StoreAnswers ==
  /\ pc = "awaiting"
  /\ lookup.state = "inflight"
  /\ lookup' = [lookup EXCEPT !.state = "resolved",
                              !.doc = FindOne(store, [id |-> lookup.id,
                                                      tagKey |-> lookup.tagKey,
                                                      tagValue |-> lookup.tagValue])]
  /\ UNCHANGED <<store, header, claimed, reqUser, pc, apiKey, promise, doneLog,
                 outcome, queries, cancelled, unhandled>>

\* The outstanding findOne fails (connection or storage error).
StoreFails ==
  /\ pc = "awaiting"
  /\ lookup.state = "inflight"
  /\ lookup' = [lookup EXCEPT !.state = "rejected", !.err = "StoreError"]
  /\ UNCHANGED <<store, header, claimed, reqUser, pc, apiKey, promise, doneLog,
                 outcome, queries, cancelled, unhandled>>

\* The host aborts the request while findOne is outstanding. Nothing in the
\* service, the strategy or the guard looks at this.
Cancel ==
  /\ pc = "awaiting"
  /\ ~cancelled
  /\ cancelled' = TRUE
  /\ UNCHANGED <<store, header, claimed, reqUser, pc, apiKey, lookup, promise,
                 doneLog, outcome, queries, unhandled>>

\* findOne has settled: the executor of validateApiKey resumes after its
\* await and resolves or rejects the promise. done has not been called yet.
ValidateResume ==
  /\ pc = "awaiting"
  /\ lookup.state \in {"resolved", "rejected"}
  /\ promise' = ValidateSettle(lookup)
  /\ pc' = "settled"
  /\ UNCHANGED <<store, header, claimed, reqUser, apiKey, lookup, doneLog,
                 outcome, queries, cancelled, unhandled>>

\* validateApiKey's promise has settled: the verify callback resumes after
\* its await and calls done, the strategy reports, the guard attaches the user.
VerifyResume(raises) ==
  /\ pc = "settled"
  /\ LET v == VerifyDone(promise, raises)
         o == Verified(v.log[Len(v.log)])
     IN /\ doneLog' = v.log
        /\ unhandled' = v.threw
        /\ outcome' = o
        /\ reqUser' = Attach(o, reqUser)
  /\ pc' = "done"
  /\ UNCHANGED <<store, header, claimed, apiKey, lookup, promise, queries, cancelled>>

\* The guard's continuation never throws into the verify callback.
GuardVerifyResume == VerifyResume(NoRaise)

Next ==
  \/ Authenticate
  \/ StoreAnswers
  \/ StoreFails
  \/ Cancel
  \/ ValidateResume
  \/ GuardVerifyResume

Spec == Init /\ [][Next]_vars

\* The program's own steps are taken when they can be; whether the store
\* ever answers is up to the store.
FairSpec ==
  Spec /\ WF_vars(Authenticate) /\ WF_vars(ValidateResume) /\ WF_vars(GuardVerifyResume)

\* The strategy used with a continuation that may throw (any host that is
\* not the guard).
RaisingVerifyResume == \E r \in BOOLEAN \X BOOLEAN : VerifyResume(r)

NextRaise ==
  \/ Authenticate
  \/ StoreAnswers
  \/ StoreFails
  \/ Cancel
  \/ ValidateResume
  \/ RaisingVerifyResume

SpecRaise == Init /\ [][NextRaise]_vars

(* --------------------------- properties -------------------------------- *)

\* The record of id holds a tag named api-key whose value is key.
HasApiKeyTag(st, id, key) ==
  /\ st[id].exists
  /\ \E t \in st[id].tags : t.key = ApiKeyTagName /\ t.value = key

Denied(r) == [kind |-> "Denied", reason |-> r, user |-> NoDoc]

\* The store without the record of id.
RemoveIdentity(st, id) == [st EXCEPT ![id] = [exists |-> FALSE, tags |-> {}]]

\* What the request ends with when findOne answers from store st.
OutcomeOn(st, f) ==
  Verified(VerifyDone(ValidateSettle([NoLookup EXCEPT !.state = "resolved",
                                                      !.doc = FindOne(st, f)]),
                      NoRaise).log[1])

LookupFilter == [id |-> lookup.id, tagKey |-> lookup.tagKey, tagValue |-> lookup.tagValue]

\* C1: when the store answered and the claimed identity's record holds no tag
\* (api-key, credential), the request ends Denied(credential-mismatch),
\* whatever other tags the record holds.
C1_NoMatchingTagDenied ==
  (/\ pc = "done"
   /\ lookup.state = "resolved"
   /\ ~HasApiKeyTag(store, lookup.id, lookup.tagValue))
  => outcome = Denied("credential-mismatch")

\* C2: a request that claims an identity whose record holds the tag
\* (api-key, k) and presents "Bearer " followed by k asks the store, and once
\* the store has answered it ends Allowed with that identity's plain object,
\* which request.user then carries.
C2_MatchingTagAllowed ==
  \A k \in Keys :
    (/\ pc = "done"
     /\ header = [present |-> TRUE, value |-> Prefix \o k]
     /\ claimed.present
     /\ HasApiKeyTag(store, claimed.id, k))
    => /\ lookup.state \in {"resolved", "rejected"}
       /\ lookup.state = "resolved"
            => /\ outcome.kind = "Allowed"
               /\ outcome.user = [present |-> TRUE, id |-> claimed.id,
                                  tags |-> store[claimed.id].tags, form |-> "json"]
               /\ reqUser = outcome.user

C2_Witness ==
  /\ pc = "done"
  /\ claimed.present
  /\ header = [present |-> TRUE, value |-> Prefix \o <<"a">>]
  /\ HasApiKeyTag(store, claimed.id, <<"a">>)
  /\ outcome.kind = "Allowed"
  /\ reqUser.form = "json"

\* C3: a request without the header, or whose header does not start with
\* "Bearer ", never reaches the store and ends Denied(missing-credential)
\* with request.user as it was.
C3_NoPrefixDenied ==
  (~header.present \/ ~StartsWith(header.value, <<"B", "e", "a", "r", "e", "r", " ">>))
  => /\ pc \in {"start", "done"}
     /\ queries = 0
     /\ reqUser = claimed
     /\ pc = "done" => outcome = Denied("missing-credential")

C3_Witness ==
  /\ pc = "done"
  /\ header = [present |-> TRUE, value |-> <<"T", "o", "k", "e", "n", " ", "a">>]
  /\ claimed.present
  /\ HasApiKeyTag(store, claimed.id, <<"a">>)
  /\ outcome = Denied("missing-credential")

\* C4: a request that carries no claimed identity ends in a denial, not in
\* an error, and without a store lookup.
C4_NoIdentityDenied ==
  (pc = "done" /\ ~claimed.present) => (outcome.kind = "Denied" /\ queries = 0)

\* C5: an empty credential never causes a store lookup.
C5_EmptyKeyNeverQueried ==
  (apiKey.present /\ apiKey.value = << >>) => queries = 0

\* C6: when findOne fails, validateApiKey rejects with that error, done is
\* called with it, the request ends in an error outcome carrying it (not
\* Denied, not Allowed) and request.user stays as it was.
C6_StoreFailureIsError ==
  (pc \in {"settled", "done"} /\ lookup.state = "rejected")
  => /\ promise = [state |-> "rejected", value |-> NoDoc, err |-> "StoreError"]
     /\ reqUser = claimed
     /\ outcome.kind \notin {"Allowed", "Denied"}
     /\ pc = "done"
          => /\ doneLog = <<DoneCall("StoreError", NoDoc)>>
             /\ outcome = [kind |-> "Error", reason |-> "StoreError", user |-> NoDoc]

C6_Witness ==
  /\ pc = "done"
  /\ lookup.state = "rejected"
  /\ HasApiKeyTag(store, lookup.id, lookup.tagValue)
  /\ outcome.kind = "Error"

\* C7: when the claimed identity's record holds no tag (api-key, credential),
\* the request ends as it would if the store held no record of that identity.
C7_ExistenceHidden ==
  (/\ pc = "done"
   /\ lookup.state = "resolved"
   /\ ~HasApiKeyTag(store, lookup.id, lookup.tagValue))
  => outcome = OutcomeOn(RemoveIdentity(store, lookup.id), LookupFilter)

\* C8: a request whose key reached the verify callback has had done called
\* exactly once when it is over, also when done throws.
C8_DoneOnce ==
  (pc = "done" /\ apiKey.present) => Len(doneLog) = 1

\* C9: every request eventually reaches a terminal outcome, also when the
\* store never answers.
C9_EventuallyTerminal == <>(pc = "done")

\* C10: no identity is attached to a request the host has cancelled.
C10_CancelledNotAttached ==
  cancelled => reqUser = claimed

====
